---- MODULE Spec2Model ----
(***************************************************************************)
(* Model of the OIT calculator's calculation core                          *)
(* (src/_ts/oit_calculator/core/calculator.ts).                            *)
(*                                                                         *)
(* Decimal values are modelled as exact rationals [n, d] in lowest terms   *)
(* with d > 0.  decimal.js rounds every quotient to 20 significant digits; *)
(* the model keeps the exact quotient.  The tolerances drawn below are far *)
(* above 1e-19, and the comparisons that are tight in the drawn inputs     *)
(* (servings exactly at the minimum, neat mass exactly at the threshold)   *)
(* involve terminating decimals, which decimal.js computes exactly too.    *)
(***************************************************************************)
EXTENDS Integers, Sequences, FiniteSets, TLC

\* ------------------------------------------------------------------------
\* Decimal arithmetic (decimal.js), as exact rationals
\* ------------------------------------------------------------------------

AbsInt(x) == IF x < 0 THEN -x ELSE x

RECURSIVE GCD(_, _)
GCD(a, b) == IF b = 0 THEN a ELSE GCD(b, a % b)

\* new Decimal(n/d): the value n/d in lowest terms, denominator positive
Dec(n, d) ==
    LET g == GCD(AbsInt(n), AbsInt(d))
        s == IF d < 0 THEN -1 ELSE 1
    IN  [n |-> s * (n \div g), d |-> s * (d \div g)]

times(a, b) ==
    LET g1 == GCD(AbsInt(a.n), b.d)
        g2 == GCD(AbsInt(b.n), a.d)
    IN  Dec((a.n \div g1) * (b.n \div g2), (a.d \div g2) * (b.d \div g1))

\* b is never zero where the code divides (see FindDilutionCandidates)
dividedBy(a, b) == times(a, Dec(b.d, b.n))

plus(a, b) == Dec(a.n * b.d + b.n * a.d, a.d * b.d)

minus(a, b) == Dec(a.n * b.d - b.n * a.d, a.d * b.d)

abs(a) == [n |-> AbsInt(a.n), d |-> a.d]

floor(a) == Dec(a.n \div a.d, 1)

ceil(a) == Dec(-((-a.n) \div a.d), 1)

lessThan(a, b) == a.n * b.d < b.n * a.d

greaterThan(a, b) == a.n * b.d > b.n * a.d

greaterThanOrEqualTo(a, b) == a.n * b.d >= b.n * a.d

lessThanOrEqualTo(a, b) == a.n * b.d <= b.n * a.d

equals(a, b) == a.n * b.d = b.n * a.d

comparedTo(a, b) == IF lessThan(a, b) THEN -1 ELSE IF greaterThan(a, b) THEN 1 ELSE 0

\* ------------------------------------------------------------------------
\* Constants
\* ------------------------------------------------------------------------

DILUTION_WATER_STEP_RESOLUTION == Dec(1, 2)

\* ------------------------------------------------------------------------
\* Food
\* ------------------------------------------------------------------------

getMgPerUnit(food) == dividedBy(times(food.gramsInServing, Dec(1000, 1)), food.servingSize)

\* ------------------------------------------------------------------------
\* Dilution candidate search
\* ------------------------------------------------------------------------

MixCandidates(food, config) ==
    IF food.type = "SOLID" THEN config.SOLID_MIX_CANDIDATES ELSE config.LIQUID_MIX_CANDIDATES

\* P / (MAX_SOLID_CONCENTRATION x mgPerUnit), for SOLID food
minDailyForLowConcentration(P, food, config) ==
    dividedBy(P, times(config.MAX_SOLID_CONCENTRATION, getMgPerUnit(food)))

\* mutant: the food's own volume is left out of a liquid mixture
MixTotalVolumeWaterOnly(food, mixFood, waterVal) == waterVal

MixTotalVolume(food, mixFood, waterVal) ==
    IF food.type = "SOLID" THEN waterVal ELSE plus(mixFood, waterVal)

\* mutant: the minimum number of servings is not checked
FailsServingsNever(servings, config) == FALSE

\* the hard constraints: servings, measurability, water limits
FailsServings(servings, config) == lessThan(servings, config.minServingsForMix)

\* mutant: the MAX_MIX_WATER limit is not checked
FailsResolutionNoMaxWater(food, mixFood, dailyAmount, waterVal, config) ==
    \/ IF food.type = "SOLID"
       THEN lessThan(mixFood, config.minMeasurableMass)
       ELSE lessThan(mixFood, config.minMeasurableVolume)
    \/ lessThan(dailyAmount, config.minMeasurableVolume)
    \/ lessThan(waterVal, config.minMeasurableVolume)

FailsResolution(food, mixFood, dailyAmount, waterVal, config) ==
    \/ IF food.type = "SOLID"
       THEN lessThan(mixFood, config.minMeasurableMass)
       ELSE lessThan(mixFood, config.minMeasurableVolume)
    \/ lessThan(dailyAmount, config.minMeasurableVolume)
    \/ greaterThan(waterVal, config.MAX_MIX_WATER)
    \/ lessThan(waterVal, config.minMeasurableVolume)

\* mutant: the deviation is compared without abs(), so under-delivery passes
FailsToleranceNoAbs(P, totalMixProtein, mixTotalVolume, dailyAmount, config) ==
    LET actualProteinPerMl == dividedBy(totalMixProtein, mixTotalVolume)
        actualProteinDelivered == times(actualProteinPerMl, dailyAmount)
    IN  greaterThan(minus(dividedBy(actualProteinDelivered, P), Dec(1, 1)),
                    config.PROTEIN_TOLERANCE)

\* mutant: the comparison with the tolerance is the wrong way round
FailsToleranceReversed(P, totalMixProtein, mixTotalVolume, dailyAmount, config) ==
    LET actualProteinPerMl == dividedBy(totalMixProtein, mixTotalVolume)
        actualProteinDelivered == times(actualProteinPerMl, dailyAmount)
    IN  lessThan(abs(minus(dividedBy(actualProteinDelivered, P), Dec(1, 1))),
                 config.PROTEIN_TOLERANCE)

\* the protein tolerance check
FailsTolerance(P, totalMixProtein, mixTotalVolume, dailyAmount, config) ==
    LET actualProteinPerMl == dividedBy(totalMixProtein, mixTotalVolume)
        actualProteinDelivered == times(actualProteinPerMl, dailyAmount)
    IN  greaterThan(abs(minus(dividedBy(actualProteinDelivered, P), Dec(1, 1))),
                    config.PROTEIN_TOLERANCE)

\* a one-element sequence holding the Candidate, or the empty sequence for null
checkCandidateValidity(food, P, totalMixProtein, mixFood, dailyAmount, waterVal, config) ==
    LET mixTotalVolume == MixTotalVolume(food, mixFood, waterVal)
        servings == dividedBy(mixTotalVolume, dailyAmount)
    IN  IF FailsServings(servings, config) THEN << >>
        ELSE IF FailsResolution(food, mixFood, dailyAmount, waterVal, config) THEN << >>
        ELSE IF FailsTolerance(P, totalMixProtein, mixTotalVolume, dailyAmount, config) THEN << >>
        ELSE << [mixFoodAmount  |-> mixFood,
                 mixWaterAmount |-> waterVal,
                 dailyAmount    |-> dailyAmount,
                 mixTotalVolume |-> mixTotalVolume,
                 servings       |-> servings] >>

IdealWater(P, food, mixFood, dailyAmount) ==
    LET totalMixProtein == times(mixFood, getMgPerUnit(food))
        idealServings == dividedBy(totalMixProtein, P)
    IN  IF food.type = "SOLID"
        THEN times(dailyAmount, idealServings)
        ELSE minus(times(dailyAmount, idealServings), mixFood)

FloorWater(idealWater) ==
    times(floor(dividedBy(idealWater, DILUTION_WATER_STEP_RESOLUTION)), DILUTION_WATER_STEP_RESOLUTION)

CeilWater(idealWater) ==
    times(ceil(dividedBy(idealWater, DILUTION_WATER_STEP_RESOLUTION)), DILUTION_WATER_STEP_RESOLUTION)

\* mutant: the ceil snap is tested even when it equals the floor snap
roundedOptionsToCheckBoth(idealWater) ==
    << FloorWater(idealWater), CeilWater(idealWater) >>

roundedOptionsToCheck(idealWater) ==
    IF equals(CeilWater(idealWater), FloorWater(idealWater))
    THEN << FloorWater(idealWater) >>
    ELSE << FloorWater(idealWater), CeilWater(idealWater) >>

RECURSIVE TestOptions(_, _, _, _, _, _, _)
TestOptions(food, P, totalMixProtein, mixFood, dailyAmount, options, config) ==
    IF options = << >> THEN << >>
    ELSE checkCandidateValidity(food, P, totalMixProtein, mixFood, dailyAmount, Head(options), config)
         \o TestOptions(food, P, totalMixProtein, mixFood, dailyAmount, Tail(options), config)

\* mutant: the ideal water is tested whether or not a snap was valid
PairCandidatesAlwaysIdeal(P, food, mixFood, dailyAmount, config) ==
    LET totalMixProtein == times(mixFood, getMgPerUnit(food))
        idealWater == IdealWater(P, food, mixFood, dailyAmount)
    IN  IF lessThan(idealWater, Dec(0, 1)) THEN << >>
        ELSE TestOptions(food, P, totalMixProtein, mixFood, dailyAmount,
                         roundedOptionsToCheck(idealWater), config)
             \o checkCandidateValidity(food, P, totalMixProtein, mixFood, dailyAmount,
                                       idealWater, config)

\* mutant: no fallback to the ideal water when no snap is valid
PairCandidatesNoFallback(P, food, mixFood, dailyAmount, config) ==
    LET totalMixProtein == times(mixFood, getMgPerUnit(food))
        idealWater == IdealWater(P, food, mixFood, dailyAmount)
    IN  IF lessThan(idealWater, Dec(0, 1)) THEN << >>
        ELSE TestOptions(food, P, totalMixProtein, mixFood, dailyAmount,
                         roundedOptionsToCheck(idealWater), config)

\* the body of the inner loop: the candidates one (mixFood, dailyAmount) pair pushes
PairCandidates(P, food, mixFood, dailyAmount, config) ==
    LET totalMixProtein == times(mixFood, getMgPerUnit(food))
        idealWater == IdealWater(P, food, mixFood, dailyAmount)
    IN  IF lessThan(idealWater, Dec(0, 1)) THEN << >>
        ELSE LET snapped == TestOptions(food, P, totalMixProtein, mixFood, dailyAmount,
                                        roundedOptionsToCheck(idealWater), config)
             IN  IF snapped # << >> THEN snapped
                 ELSE checkCandidateValidity(food, P, totalMixProtein, mixFood, dailyAmount,
                                             idealWater, config)

\* the inner loop: the candidates of one mixFood over the daily amounts from j on
RECURSIVE DailyLoop(_, _, _, _, _)
DailyLoop(P, food, config, mixFood, j) ==
    IF j > Len(config.DAILY_AMOUNT_CANDIDATES) THEN << >>
    ELSE PairCandidates(P, food, mixFood, config.DAILY_AMOUNT_CANDIDATES[j], config)
         \o DailyLoop(P, food, config, mixFood, j + 1)

\* the outer loop: the candidates of the mix amounts from i on, in push order
RECURSIVE MixLoop(_, _, _, _)
MixLoop(P, food, config, i) ==
    IF i > Len(MixCandidates(food, config)) THEN << >>
    ELSE DailyLoop(P, food, config, MixCandidates(food, config)[i], 1)
         \o MixLoop(P, food, config, i + 1)

\* aMeetsRatio / bMeetsRatio
MeetsRatio(minDaily, c) == greaterThanOrEqualTo(c.dailyAmount, minDaily)

\* mutant: the low-concentration preference is left out of the comparator
compareCandidatesNoRatio(food, minDaily, a, b) ==
    IF comparedTo(a.mixFoodAmount, b.mixFoodAmount) # 0
    THEN comparedTo(a.mixFoodAmount, b.mixFoodAmount)
    ELSE IF comparedTo(a.dailyAmount, b.dailyAmount) # 0
         THEN comparedTo(a.dailyAmount, b.dailyAmount)
    ELSE IF comparedTo(a.mixTotalVolume, b.mixTotalVolume) # 0
         THEN comparedTo(a.mixTotalVolume, b.mixTotalVolume)
    ELSE comparedTo(a.mixWaterAmount, b.mixWaterAmount)

\* mutant: dailyAmount is compared before mixFoodAmount
compareCandidatesDailyFirst(food, minDaily, a, b) ==
    IF food.type = "SOLID" /\ MeetsRatio(minDaily, a) /\ ~MeetsRatio(minDaily, b) THEN -1
    ELSE IF food.type = "SOLID" /\ ~MeetsRatio(minDaily, a) /\ MeetsRatio(minDaily, b) THEN 1
    ELSE IF comparedTo(a.dailyAmount, b.dailyAmount) # 0
         THEN comparedTo(a.dailyAmount, b.dailyAmount)
    ELSE IF comparedTo(a.mixFoodAmount, b.mixFoodAmount) # 0
         THEN comparedTo(a.mixFoodAmount, b.mixFoodAmount)
    ELSE IF comparedTo(a.mixTotalVolume, b.mixTotalVolume) # 0
         THEN comparedTo(a.mixTotalVolume, b.mixTotalVolume)
    ELSE comparedTo(a.mixWaterAmount, b.mixWaterAmount)

\* the sort comparator: negative when a sorts before b; minDaily is
\* minDailyForLowConcentration, read only for SOLID food
compareCandidates(food, minDaily, a, b) ==
    IF food.type = "SOLID" /\ MeetsRatio(minDaily, a) /\ ~MeetsRatio(minDaily, b) THEN -1
    ELSE IF food.type = "SOLID" /\ ~MeetsRatio(minDaily, a) /\ MeetsRatio(minDaily, b) THEN 1
    ELSE IF comparedTo(a.mixFoodAmount, b.mixFoodAmount) # 0
         THEN comparedTo(a.mixFoodAmount, b.mixFoodAmount)
    ELSE IF comparedTo(a.dailyAmount, b.dailyAmount) # 0
         THEN comparedTo(a.dailyAmount, b.dailyAmount)
    ELSE IF comparedTo(a.mixTotalVolume, b.mixTotalVolume) # 0
         THEN comparedTo(a.mixTotalVolume, b.mixTotalVolume)
    ELSE comparedTo(a.mixWaterAmount, b.mixWaterAmount)

\* Array.prototype.sort with the comparator above; the sort is stable, so an
\* element lands after those that compare less and those that compare equal
\* and were pushed earlier
sort(food, minDaily, unsorted) ==
    LET n == Len(unsorted)
        before(j, i) ==
            LET cmp == compareCandidates(food, minDaily, unsorted[j], unsorted[i])
            IN  cmp < 0 \/ (cmp = 0 /\ j < i)
        rank == [i \in 1..n |-> 1 + Cardinality({ j \in 1..n : before(j, i) })]
    IN  [k \in 1..n |-> unsorted[CHOOSE i \in 1..n : rank[i] = k]]

findDilutionCandidates(P, food, config) ==
    sort(food,
         \* null for other foods, where the comparator does not read it
         IF food.type = "SOLID" THEN minDailyForLowConcentration(P, food, config) ELSE Dec(0, 1),
         MixLoop(P, food, config, 1))

\* ------------------------------------------------------------------------
\* utils.ts
\* ------------------------------------------------------------------------

RECURSIVE Pow10(_)
Pow10(k) == IF k = 0 THEN 1 ELSE 10 * Pow10(k - 1)

\* Number.prototype.toFixed(decimals), read back as a number: the nearest
\* multiple of 10^-decimals.  The inputs used below never lie exactly half-way
\* between two multiples, where the binary double decides the direction.
toFixed(num, decimals) ==
    Dec(floor(plus(times(num, Dec(Pow10(decimals), 1)), Dec(1, 2))).n, Pow10(decimals))

SOLID_RESOLUTION == 2
LIQUID_RESOLUTION == 1

\* new Decimal(formatAmount(value, unit))
formatAmount(value, unit) ==
    IF unit = "g" THEN toFixed(value, SOLID_RESOLUTION)
    ELSE IF value.d = 1 THEN toFixed(value, 0) ELSE toFixed(value, LIQUID_RESOLUTION)

getMeasuringUnit(food) == IF food.type = "LIQUID" THEN "ml" ELSE "g"

findPercentDifference(test, base) == abs(minus(dividedBy(test, base), Dec(1, 1)))

\* ------------------------------------------------------------------------
\* Step generation
\* ------------------------------------------------------------------------

\* the null return of generateStepForTarget
Null == [null |-> TRUE]

\* mutant: a neat mass exactly at the threshold is still diluted
needsDilutionAtThreshold(neatMass, foodAStrategy, diThreshold) ==
    IF foodAStrategy = "DILUTE_INITIAL" THEN lessThanOrEqualTo(neatMass, diThreshold)
    ELSE IF foodAStrategy = "DILUTE_ALL" THEN TRUE
    ELSE FALSE

needsDilution(neatMass, foodAStrategy, diThreshold) ==
    IF foodAStrategy = "DILUTE_INITIAL" THEN lessThan(neatMass, diThreshold)
    ELSE IF foodAStrategy = "DILUTE_ALL" THEN TRUE
    ELSE FALSE

\* mutant: the last candidate of the sorted list is taken instead of the first
generateStepForTargetLastCandidate(targetMg, stepIndex, food, foodAStrategy, diThreshold, config) ==
    LET neatMass == dividedBy(targetMg, getMgPerUnit(food))
        unit == IF food.type = "SOLID" THEN "g" ELSE "ml"
    IN  IF needsDilution(neatMass, foodAStrategy, diThreshold)
        THEN LET cands == findDilutionCandidates(targetMg, food, config)
             IN  IF Len(cands) = 0 THEN Null
                 ELSE [stepIndex       |-> stepIndex,
                       targetMg        |-> targetMg,
                       method          |-> "DILUTE",
                       dailyAmount     |-> cands[Len(cands)].dailyAmount,
                       dailyAmountUnit |-> "ml",
                       mixFoodAmount   |-> cands[Len(cands)].mixFoodAmount,
                       mixWaterAmount  |-> cands[Len(cands)].mixWaterAmount,
                       servings        |-> cands[Len(cands)].servings,
                       food            |-> "A"]
        ELSE [stepIndex       |-> stepIndex,
              targetMg        |-> targetMg,
              method          |-> "DIRECT",
              dailyAmount     |-> neatMass,
              dailyAmountUnit |-> unit,
              food            |-> "A"]

\* mutant: a DIRECT amount is replaced by its value at one decimal place when
\* that value delivers protein within tolerance of the target
generateStepForTargetSnapped(targetMg, stepIndex, food, foodAStrategy, diThreshold, config) ==
    LET neatMass == dividedBy(targetMg, getMgPerUnit(food))
        unit == IF food.type = "SOLID" THEN "g" ELSE "ml"
        snapped == toFixed(neatMass, 1)
        snapOk == /\ snapped.n > 0
                  /\ lessThanOrEqualTo(findPercentDifference(times(snapped, getMgPerUnit(food)), targetMg),
                                       config.PROTEIN_TOLERANCE)
    IN  IF needsDilution(neatMass, foodAStrategy, diThreshold)
        THEN LET cands == findDilutionCandidates(targetMg, food, config)
             IN  IF Len(cands) = 0 THEN Null
                 ELSE [stepIndex       |-> stepIndex,
                       targetMg        |-> targetMg,
                       method          |-> "DILUTE",
                       dailyAmount     |-> cands[1].dailyAmount,
                       dailyAmountUnit |-> "ml",
                       mixFoodAmount   |-> cands[1].mixFoodAmount,
                       mixWaterAmount  |-> cands[1].mixWaterAmount,
                       servings        |-> cands[1].servings,
                       food            |-> "A"]
        ELSE [stepIndex       |-> stepIndex,
              targetMg        |-> targetMg,
              method          |-> "DIRECT",
              dailyAmount     |-> IF snapOk THEN snapped ELSE neatMass,
              dailyAmountUnit |-> unit,
              food            |-> "A"]

\* mutant: the servings of a DILUTE step are the water, not the total volume,
\* divided by the daily amount
generateStepForTargetServingsFromWater(targetMg, stepIndex, food, foodAStrategy, diThreshold, config) ==
    LET neatMass == dividedBy(targetMg, getMgPerUnit(food))
        unit == IF food.type = "SOLID" THEN "g" ELSE "ml"
    IN  IF needsDilution(neatMass, foodAStrategy, diThreshold)
        THEN LET cands == findDilutionCandidates(targetMg, food, config)
             IN  IF Len(cands) = 0 THEN Null
                 ELSE [stepIndex       |-> stepIndex,
                       targetMg        |-> targetMg,
                       method          |-> "DILUTE",
                       dailyAmount     |-> cands[1].dailyAmount,
                       dailyAmountUnit |-> "ml",
                       mixFoodAmount   |-> cands[1].mixFoodAmount,
                       mixWaterAmount  |-> cands[1].mixWaterAmount,
                       servings        |-> dividedBy(cands[1].mixWaterAmount, cands[1].dailyAmount),
                       food            |-> "A"]
        ELSE [stepIndex       |-> stepIndex,
              targetMg        |-> targetMg,
              method          |-> "DIRECT",
              dailyAmount     |-> neatMass,
              dailyAmountUnit |-> unit,
              food            |-> "A"]

generateStepForTarget(targetMg, stepIndex, food, foodAStrategy, diThreshold, config) ==
    LET neatMass == dividedBy(targetMg, getMgPerUnit(food))
        unit == IF food.type = "SOLID" THEN "g" ELSE "ml"
    IN  IF needsDilution(neatMass, foodAStrategy, diThreshold)
        THEN LET cands == findDilutionCandidates(targetMg, food, config)
             IN  IF Len(cands) = 0 THEN Null
                 ELSE [stepIndex       |-> stepIndex,
                       targetMg        |-> targetMg,
                       method          |-> "DILUTE",
                       dailyAmount     |-> cands[1].dailyAmount,
                       dailyAmountUnit |-> "ml",
                       mixFoodAmount   |-> cands[1].mixFoodAmount,
                       mixWaterAmount  |-> cands[1].mixWaterAmount,
                       servings        |-> cands[1].servings,
                       food            |-> "A"]
        ELSE [stepIndex       |-> stepIndex,
              targetMg        |-> targetMg,
              method          |-> "DIRECT",
              dailyAmount     |-> neatMass,
              dailyAmountUnit |-> unit,
              food            |-> "A"]

\* ------------------------------------------------------------------------
\* Default protocol
\* ------------------------------------------------------------------------

DOSING_STRATEGIES ==
    [STANDARD |-> << Dec(1, 1), Dec(25, 10), Dec(5, 1), Dec(10, 1), Dec(20, 1), Dec(40, 1),
                     Dec(80, 1), Dec(120, 1), Dec(160, 1), Dec(240, 1), Dec(300, 1) >>]

\* mutant: the fallback step carries the target, not the neat amount
fallbackStepTargetAsAmount(targetMg, stepIndex, food) ==
    [stepIndex       |-> stepIndex,
     targetMg        |-> targetMg,
     method          |-> "DIRECT",
     dailyAmount     |-> targetMg,
     dailyAmountUnit |-> IF food.type = "SOLID" THEN "g" ELSE "ml",
     food            |-> "A"]

\* the step pushed when generateStepForTarget returned null
fallbackStep(targetMg, stepIndex, food) ==
    [stepIndex       |-> stepIndex,
     targetMg        |-> targetMg,
     method          |-> "DIRECT",
     dailyAmount     |-> dividedBy(targetMg, getMgPerUnit(food)),
     dailyAmountUnit |-> IF food.type = "SOLID" THEN "g" ELSE "ml",
     food            |-> "A"]

\* mutant: a target whose step cannot be generated is left out
RECURSIVE defaultStepsSkipNull(_, _, _, _)
defaultStepsSkipNull(food, config, i, steps) ==
    IF i > Len(DOSING_STRATEGIES.STANDARD) THEN steps
    ELSE LET targetMg == DOSING_STRATEGIES.STANDARD[i]
             next == generateStepForTarget(targetMg, i, food, "DILUTE_INITIAL",
                                           config.DEFAULT_FOOD_A_DILUTION_THRESHOLD, config)
         IN  defaultStepsSkipNull(food, config, i + 1,
                                  IF next # Null THEN Append(steps, next) ELSE steps)

\* mutant: the steps are generated under DILUTE_ALL
RECURSIVE defaultStepsDiluteAll(_, _, _, _)
defaultStepsDiluteAll(food, config, i, steps) ==
    IF i > Len(DOSING_STRATEGIES.STANDARD) THEN steps
    ELSE LET targetMg == DOSING_STRATEGIES.STANDARD[i]
             next == generateStepForTarget(targetMg, i, food, "DILUTE_ALL",
                                           config.DEFAULT_FOOD_A_DILUTION_THRESHOLD, config)
         IN  defaultStepsDiluteAll(food, config, i + 1,
                                   Append(steps, IF next # Null THEN next
                                                 ELSE fallbackStep(targetMg, i, food)))

\* the loop of generateDefaultProtocol; i counts from 1, as stepIndex does
RECURSIVE defaultSteps(_, _, _, _)
defaultSteps(food, config, i, steps) ==
    IF i > Len(DOSING_STRATEGIES.STANDARD) THEN steps
    ELSE LET targetMg == DOSING_STRATEGIES.STANDARD[i]
             next == generateStepForTarget(targetMg, i, food, "DILUTE_INITIAL",
                                           config.DEFAULT_FOOD_A_DILUTION_THRESHOLD, config)
         IN  defaultSteps(food, config, i + 1,
                          Append(steps, IF next # Null THEN next
                                        ELSE fallbackStep(targetMg, i, food)))

generateDefaultProtocol(food, config) ==
    [dosingStrategy |-> "STANDARD",
     foodA          |-> food,
     foodAStrategy  |-> "DILUTE_INITIAL",
     diThreshold    |-> config.DEFAULT_FOOD_A_DILUTION_THRESHOLD,
     steps          |-> defaultSteps(food, config, 1, << >>),
     config         |-> config]

\* ------------------------------------------------------------------------
\* Rounding helpers
\* ------------------------------------------------------------------------

\* mutant: the zero-volume guard is missing
calculateDilutionActualProteinNoGuard(food, mixAmount, mixTotalVolume, dailyAmount) ==
    times(times(mixAmount, getMgPerUnit(food)), dividedBy(dailyAmount, mixTotalVolume))

calculateDilutionActualProtein(food, mixAmount, mixTotalVolume, dailyAmount) ==
    IF mixTotalVolume.n = 0 THEN Null
    ELSE LET totalProtein == times(mixAmount, getMgPerUnit(food))
         IN  times(totalProtein, dividedBy(dailyAmount, mixTotalVolume))

findRoundedMixWaterAmount(P, food, mixAmount, idealWaterAmount, dailyAmount, protein_tolerance) ==
    LET floorWater == FloorWater(idealWaterAmount)
        ceilWater == CeilWater(idealWaterAmount)
        unit == IF food.type = "SOLID" THEN "g" ELSE "ml"
        roundedDailyAmount == formatAmount(dailyAmount, "ml")
        roundedMixAmount == formatAmount(mixAmount, unit)
        floorMixTotalVolume == IF food.type = "SOLID" THEN floorWater ELSE plus(floorWater, roundedMixAmount)
        floorMg == calculateDilutionActualProtein(food, roundedMixAmount, floorMixTotalVolume, roundedDailyAmount)
        floorDifference == findPercentDifference(floorMg, P)
        ceilMixTotalVolume == IF food.type = "SOLID" THEN ceilWater ELSE plus(ceilWater, roundedMixAmount)
        ceilMg == calculateDilutionActualProtein(food, roundedMixAmount, ceilMixTotalVolume, roundedDailyAmount)
        ceilDifference == findPercentDifference(ceilMg, P)
        minDiff == IF lessThan(ceilDifference, floorDifference) THEN ceilDifference ELSE floorDifference
    IN  IF floorMixTotalVolume.n = 0 THEN Null
        ELSE IF ~equals(ceilWater, floorWater)
        THEN IF ceilMixTotalVolume.n = 0 THEN Null
             ELSE IF equals(floorDifference, minDiff)
             THEN (IF lessThanOrEqualTo(floorDifference, protein_tolerance) THEN floorWater ELSE Null)
             ELSE (IF lessThanOrEqualTo(ceilDifference, protein_tolerance) THEN ceilWater ELSE Null)
        ELSE IF lessThanOrEqualTo(floorDifference, protein_tolerance) THEN floorWater ELSE Null

\* ------------------------------------------------------------------------
\* Validator: the RAPID_ESCALATION rule
\* ------------------------------------------------------------------------

\* mutant: a jump is exempt as soon as one of the two doses is small
isRapidEscalationEitherSmall(prevMg, currMg) ==
    /\ greaterThan(currMg, times(prevMg, Dec(2, 1)))
    /\ ~(lessThanOrEqualTo(prevMg, Dec(5, 1)) \/ lessThanOrEqualTo(currMg, Dec(5, 1)))

\* targetMg more than doubles, unless both doses are <= 5 mg
isRapidEscalation(prevMg, currMg) ==
    /\ greaterThan(currMg, times(prevMg, Dec(2, 1)))
    /\ ~(lessThanOrEqualTo(prevMg, Dec(5, 1)) /\ lessThanOrEqualTo(currMg, Dec(5, 1)))

\* the warnings of the rule for steps i .. end, in step order
RECURSIVE rapidEscalationWarnings(_, _)
rapidEscalationWarnings(steps, i) ==
    IF i > Len(steps) THEN << >>
    ELSE (IF isRapidEscalation(steps[i - 1].targetMg, steps[i].targetMg)
          THEN << [severity |-> "yellow", code |-> "RAPID_ESCALATION", stepIndex |-> steps[i].stepIndex] >>
          ELSE << >>)
         \o rapidEscalationWarnings(steps, i + 1)

\* validateProtocol(protocol), restricted to the RAPID_ESCALATION rule
validateProtocol(protocol) == rapidEscalationWarnings(protocol.steps, 2)

\* ------------------------------------------------------------------------
\* Settings handlers (attachSettingsDelegation)
\* ------------------------------------------------------------------------

\* the value of a number that is not a number
NaN == [nan |-> TRUE]

\* parseFloat of the texts a number input can hold: blank gives NaN
parseFloat(raw) ==
    CASE raw = ""     -> NaN
      [] raw = "-5"   -> Dec(-5, 1)
      [] raw = "0"    -> Dec(0, 1)
      [] raw = "0.5"  -> Dec(1, 2)
      [] raw = "50"   -> Dec(50, 1)
      [] raw = "2000" -> Dec(2000, 1)

\* the four clamping statements of the food-a-serving-size handler, in their
\* order; every comparison with NaN is false
clampServingSize(parsed, gramsInServing) ==
    LET v1 == IF parsed # NaN /\ lessThan(parsed, gramsInServing) THEN gramsInServing ELSE parsed
        v2 == IF v1 # NaN /\ lessThanOrEqualTo(v1, Dec(0, 1)) THEN Dec(1, 1) ELSE v1
        v3 == IF v2 # NaN /\ greaterThan(v2, Dec(1000, 1)) THEN Dec(1000, 1) ELSE v2
    IN  IF v3 = NaN THEN Dec(1, 1) ELSE v3

\* ========================================================================
\* WorkspaceManager (state/workspaceManager.ts)
\* ========================================================================

\* a protocol as far as the manager reads it: protocol.foodA.name
mockProtocol(name) == [foodA |-> [name |-> name]]

ProtocolValues ==
    { Null, mockProtocol("Peanut"), mockProtocol("Elmhurst Milked Almonds Unsweetened Beverage") }

NoteValues == { "Note 1" }

\* new ProtocolState(): no protocol, empty note, nobody subscribed
NewProtocolState == [protocol |-> Null, customNote |-> "", listeners |-> << >>]

\* this.tabs.findIndex(t => t.id === id), counted from 1; 0 when absent
findIndex(tabList, id) ==
    IF \E i \in 1..Len(tabList) : tabList[i].id = id
    THEN CHOOSE i \in 1..Len(tabList) :
            tabList[i].id = id /\ \A j \in 1..(i - 1) : tabList[j].id # id
    ELSE 0

untitled(k) == "Untitled " \o ToString(k)

\* this.tabListeners.forEach(cb => cb(this.tabs, this.activeTabId))
notifyTabsListeners(m) ==
    [m EXCEPT !.tabCalls = @ \o
        [k \in 1..Len(m.tabListeners) |->
            [listener |-> m.tabListeners[k],
             tabs |-> [j \in 1..Len(m.tabs) |-> m.tabs[j].id],
             activeId |-> m.activeTabId]]]

proxyListener(m, protocol, note) ==
    LET i == findIndex(m.tabs, m.activeTabId)
        title == IF protocol # Null
                 THEN (IF Len(protocol.foodA.name) > 20
                       THEN SubSeq(protocol.foodA.name, 1, 20) \o "..."
                       ELSE protocol.foodA.name)
                 ELSE untitled(i)
        titled == IF i # 0 THEN [m EXCEPT !.tabs[i].title = title] ELSE m
        notified == notifyTabsListeners(titled)
    IN  [notified EXCEPT !.forwarded = @ \o
            [k \in 1..Len(notified.listeners) |->
                [listener |-> notified.listeners[k], protocol |-> protocol, note |-> note]]]

\* ProtocolState: every subscribed listener is called with (protocol, note);
\* the proxy listener is the only one that ever subscribes
RECURSIVE notifyFrom(_, _, _)
notifyFrom(m, i, k) ==
    IF k > Len(m.tabs[i].state.listeners) THEN m
    ELSE notifyFrom(proxyListener(m, m.tabs[i].state.protocol, m.tabs[i].state.customNote), i, k + 1)

\* ProtocolState.setCustomNote(note) on the state of tab i
setCustomNote(m, i, note) ==
    notifyFrom([m EXCEPT !.tabs[i].state.customNote = note], i, 1)

\* ProtocolState.setProtocol(protocol, label) on the state of tab i
setProtocol(m, i, protocol) ==
    notifyFrom([m EXCEPT !.tabs[i].state.protocol = protocol], i, 1)

\* getActive().subscribe(this.proxyListener): ProtocolState.subscribe adds the
\* listener and calls it at once with the current protocol and note
bindToActiveTab(m) ==
    LET i == findIndex(m.tabs, m.activeTabId)
    IN  IF i = 0 THEN [m EXCEPT !.threw = TRUE]
        ELSE proxyListener([m EXCEPT !.tabs[i].state.listeners = Append(@, "proxyListener")],
                           m.tabs[i].state.protocol, m.tabs[i].state.customNote)

\* getActive().unsubscribe(this.proxyListener)
unbindFromActiveTab(m) ==
    LET i == findIndex(m.tabs, m.activeTabId)
    IN  IF i = 0 THEN [m EXCEPT !.threw = TRUE]
        ELSE [m EXCEPT !.tabs[i].state.listeners = SelectSeq(@, LAMBDA l : l # "proxyListener")]

\* mutant: the old tab's state stays subscribed
setActiveNoUnbind(m, id) ==
    IF findIndex(m.tabs, id) = 0 \/ m.activeTabId = id THEN m
    ELSE notifyTabsListeners(bindToActiveTab([m EXCEPT !.activeTabId = id]))

\* mutant: the id is not looked up before it becomes the active one
setActiveAnyId(m, id) ==
    IF m.activeTabId = id THEN m
    ELSE notifyTabsListeners(bindToActiveTab([unbindFromActiveTab(m) EXCEPT !.activeTabId = id]))

setActive(m, id) ==
    IF findIndex(m.tabs, id) = 0 \/ m.activeTabId = id THEN m
    ELSE notifyTabsListeners(bindToActiveTab([unbindFromActiveTab(m) EXCEPT !.activeTabId = id]))

\* mutant: the limit is tested after the sixth tab, not before
addTabOffByOne(m, newId) ==
    IF ~m.isLoggedIn /\ Len(m.tabs) >= 1 THEN m
    ELSE IF Len(m.tabs) > 5 THEN m
    ELSE setActive([m EXCEPT !.tabs = Append(@, [id |-> newId, state |-> NewProtocolState,
                                                  title |-> untitled(Len(m.tabs) + 1)])],
                   newId)

\* mutant: the login guard is missing
addTabNoAuthGuard(m, newId) ==
    IF Len(m.tabs) >= 5 THEN m
    ELSE setActive([m EXCEPT !.tabs = Append(@, [id |-> newId, state |-> NewProtocolState,
                                                  title |-> untitled(Len(m.tabs) + 1)])],
                   newId)

addTab(m, newId) ==
    IF ~m.isLoggedIn /\ Len(m.tabs) >= 1 THEN m
    ELSE IF Len(m.tabs) >= 5 THEN m
    ELSE setActive([m EXCEPT !.tabs = Append(@, [id |-> newId, state |-> NewProtocolState,
                                                  title |-> untitled(Len(m.tabs) + 1)])],
                   newId)

\* this.tabs.splice(index, 1)
splice(tabList, index) ==
    [j \in 1..(Len(tabList) - 1) |-> IF j < index THEN tabList[j] ELSE tabList[j + 1]]

\* mutant: after closing the active tab the next tab, not the previous one, is activated
closeTabActivatesNext(m, id) ==
    LET index == findIndex(m.tabs, id)
    IN  IF index = 0 THEN m
        ELSE IF Len(m.tabs) = 1
        THEN notifyTabsListeners(
                 [setCustomNote(setProtocol(m, 1, Null), 1, "") EXCEPT !.tabs[1].title = "Untitled 1"])
        ELSE IF id = m.activeTabId
        THEN LET removed == [unbindFromActiveTab(m) EXCEPT !.tabs = splice(@, index)]
                 newIndex == IF index < Len(removed.tabs) THEN index ELSE Len(removed.tabs)
             IN  notifyTabsListeners(
                     bindToActiveTab([removed EXCEPT !.activeTabId = removed.tabs[newIndex].id]))
        ELSE notifyTabsListeners([m EXCEPT !.tabs = splice(@, index)])

\* mutant: resetting the last tab clears the protocol but keeps the note
closeTabKeepsNote(m, id) ==
    LET index == findIndex(m.tabs, id)
    IN  IF index = 0 THEN m
        ELSE IF Len(m.tabs) = 1
        THEN notifyTabsListeners([setProtocol(m, 1, Null) EXCEPT !.tabs[1].title = "Untitled 1"])
        ELSE IF id = m.activeTabId
        THEN LET removed == [unbindFromActiveTab(m) EXCEPT !.tabs = splice(@, index)]
                 newIndex == IF index - 1 > 1 THEN index - 1 ELSE 1
             IN  notifyTabsListeners(
                     bindToActiveTab([removed EXCEPT !.activeTabId = removed.tabs[newIndex].id]))
        ELSE notifyTabsListeners([m EXCEPT !.tabs = splice(@, index)])

\* index and newIndex count from 1 here: Math.max(0, index - 1) of the code
\* is the position max(1, index - 1)
closeTab(m, id) ==
    LET index == findIndex(m.tabs, id)
    IN  IF index = 0 THEN m
        ELSE IF Len(m.tabs) = 1
        THEN notifyTabsListeners(
                 [setCustomNote(setProtocol(m, 1, Null), 1, "") EXCEPT !.tabs[1].title = "Untitled 1"])
        ELSE IF id = m.activeTabId
        THEN LET removed == [unbindFromActiveTab(m) EXCEPT !.tabs = splice(@, index)]
                 newIndex == IF index - 1 > 1 THEN index - 1 ELSE 1
             IN  notifyTabsListeners(
                     bindToActiveTab([removed EXCEPT !.activeTabId = removed.tabs[newIndex].id]))
        ELSE notifyTabsListeners([m EXCEPT !.tabs = splice(@, index)])

\* subscribe(listener): registered, then called with the active state
subscribe(m, listener) ==
    LET i == findIndex(m.tabs, m.activeTabId)
    IN  IF i = 0 THEN [m EXCEPT !.listeners = Append(@, listener), !.threw = TRUE]
        ELSE [m EXCEPT !.listeners = Append(@, listener),
                       !.forwarded = Append(@, [listener |-> listener,
                                                protocol |-> m.tabs[i].state.protocol,
                                                note |-> m.tabs[i].state.customNote])]

subscribeToTabs(m, callback) ==
    [m EXCEPT !.tabListeners = Append(@, callback),
              !.tabCalls = Append(@, [listener |-> callback,
                                      tabs |-> [j \in 1..Len(m.tabs) |-> m.tabs[j].id],
                                      activeId |-> m.activeTabId])]

setAuth(m, loggedIn) == [m EXCEPT !.isLoggedIn = loggedIn]

\* ------------------------------------------------------------------------
\* Inputs
\* ------------------------------------------------------------------------

\* how many of the pooled targets and foods a run draws from
NumTargets == 5
NumFoods == 4

\* targets (mg): 10 and 11 (calculator.test.ts), 100.5, 50 (neat mass 0.5 g
\* of the 100 mg/g solid), 1 (first STANDARD target), 13 (calculator.test.ts)
TargetPool == << Dec(10, 1), Dec(11, 1), Dec(201, 2), Dec(50, 1), Dec(1, 1), Dec(13, 1) >>

Targets == { TargetPool[i] : i \in 1..(IF NumTargets < Len(TargetPool) THEN NumTargets ELSE Len(TargetPool)) }

\* createFood(type, proteinPercent): proteinPercent g of protein per 100 g/ml
createFood(type, gramsInServing, servingSize) ==
    [type |-> type, gramsInServing |-> gramsInServing, servingSize |-> servingSize]

FoodPool == << createFood("SOLID", Dec(10, 1), Dec(100, 1)),
               createFood("LIQUID", Dec(15, 2), Dec(100, 1)),
               createFood("LIQUID", Dec(10, 1), Dec(100, 1)),
               createFood("CAPSULE", Dec(5, 1), Dec(250, 1)),
               createFood("SOLID", Dec(17, 1), Dec(100, 1)) >>

Foods == { FoodPool[i] : i \in 1..(IF NumFoods < Len(FoodPool) THEN NumFoods ELSE Len(FoodPool)) }

\* DEFAULT_CONFIG; the three candidate lists are sub-lists of the shipped ones
DEFAULT_CONFIG ==
    [minMeasurableMass   |-> Dec(2, 10),
     minMeasurableVolume |-> Dec(2, 10),
     minServingsForMix   |-> Dec(3, 1),
     PROTEIN_TOLERANCE   |-> Dec(5, 100),
     DEFAULT_FOOD_A_DILUTION_THRESHOLD |-> Dec(2, 10),
     DEFAULT_FOOD_B_THRESHOLD          |-> Dec(2, 10),
     MAX_SOLID_CONCENTRATION |-> Dec(5, 100),
     MAX_MIX_WATER    |-> Dec(500, 1),
     MAX_DAILY_AMOUNT |-> Dec(250, 1),
     SOLID_MIX_CANDIDATES   |-> << Dec(2, 10), Dec(3, 10), Dec(35, 100), Dec(1, 1), Dec(3, 1), Dec(35, 10) >>,
     LIQUID_MIX_CANDIDATES  |-> << Dec(2, 10), Dec(3, 10), Dec(4, 10), Dec(1, 1), Dec(3, 1) >>,
     DAILY_AMOUNT_CANDIDATES |-> << Dec(5, 10), Dec(1, 1), Dec(2, 1), Dec(25, 10), Dec(5, 1), Dec(20, 1) >>]

\* the tolerances the tests use: 0.1 %, the default 5 %, 50 %
Tolerances == { Dec(1, 1000), Dec(5, 100), Dec(5, 10) }

\* the { ...DEFAULT_CONFIG, override } configs of calculator.test.ts:
\* strictConfig / looseConfig, lowWaterConfig, impossibleConfig
Configs ==
    { [DEFAULT_CONFIG EXCEPT !.PROTEIN_TOLERANCE = tol] : tol \in Tolerances }
    \cup { [DEFAULT_CONFIG EXCEPT !.MAX_MIX_WATER = Dec(5, 1)],
           [DEFAULT_CONFIG EXCEPT !.minMeasurableMass = Dec(100, 1), !.MAX_MIX_WATER = Dec(10, 1)] }

Strategies == { "DILUTE_INITIAL", "DILUTE_ALL", "DILUTE_NONE" }

\* diThreshold: the default 0.2 and the 0.5 of calculator.test.ts
Thresholds == { Dec(2, 10), Dec(5, 10) }

\* amounts as typed into a step: at display precision (0.2, 1, 2.4) and
\* beyond it (0.234, 2.26)
EditedMixAmounts == { Dec(2, 10), Dec(234, 1000), Dec(1, 1) }
EditedDailyAmounts == { Dec(1, 1), Dec(226, 100), Dec(24, 10) }

\* total volumes of a mixture, the empty one included
MixTotalVolumes == { Dec(0, 1), Dec(1, 2), Dec(32, 10) }

\* the (steps[0].targetMg, steps[1].targetMg) pairs validator.test.ts writes
\* into a default protocol
EditedTargetPairs ==
    { << Dec(10, 1), Dec(25, 1) >>, << Dec(1, 1), Dec(4, 1) >>,
      << Dec(3, 1), Dec(7, 1) >>, << Dec(10, 1), Dec(20, 1) >> }

\* what the serving-size input holds when it changes: blank, negative, zero,
\* below and above the protein amounts of the foods, above 1000
RawServingSizes == { "", "-5", "0", "0.5", "50", "2000" }

\* ========================================================================
\* WorkspaceManager: state
\* ========================================================================

\* how many tab ids crypto.randomUUID() hands out, how many subscribers of
\* each kind register, and how many calls a session makes
MaxIds == 6
MaxCalls == 7
MaxListeners == 2
MaxTabListeners == 1

TabIds == 1..MaxIds

VARIABLES tabs, activeTabId, listeners, tabListeners, isLoggedIn,
          nextId, forwarded, tabCalls, threw, lastCall, calls

workspaceVars == << tabs, activeTabId, listeners, tabListeners, isLoggedIn,
                    nextId, forwarded, tabCalls, threw, lastCall, calls >>

\* the fields of the manager, as one value the methods below transform
Manager ==
    [tabs |-> tabs, activeTabId |-> activeTabId, listeners |-> listeners,
     tabListeners |-> tabListeners, isLoggedIn |-> isLoggedIn,
     forwarded |-> << >>, tabCalls |-> << >>, threw |-> threw]

\* new WorkspaceManager(): one empty tab, active, with the proxy listener bound
constructor ==
    bindToActiveTab([tabs |-> << [id |-> 1, state |-> NewProtocolState, title |-> "Untitled 1"] >>,
                     activeTabId |-> 1, listeners |-> << >>, tabListeners |-> << >>,
                     isLoggedIn |-> FALSE, forwarded |-> << >>, tabCalls |-> << >>, threw |-> FALSE])

WorkspaceConstructed ==
    /\ tabs = constructor.tabs
    /\ activeTabId = constructor.activeTabId
    /\ listeners = << >>
    /\ tabListeners = << >>
    /\ isLoggedIn = FALSE
    /\ nextId = 2
    /\ forwarded = << >>
    /\ tabCalls = << >>
    /\ threw = FALSE
    /\ lastCall = [name |-> "constructor", id |-> 1, active |-> 1]
    /\ calls = 0

\* ------------------------------------------------------------------------
\* State: the arguments of the calls and what the calls returned
\* ------------------------------------------------------------------------

VARIABLES P, food, config, foodAStrategy, diThreshold,
          searched, candidates, compared, strictCandidates,
          generated, step, protocol,
          roundArgs, roundedWater, actualArgs, actualProtein,
          edited, validated, warnings, servingChange

calculatorVars == << P, food, config, foodAStrategy, diThreshold,
                     searched, candidates, compared, strictCandidates, generated, step, protocol,
                     roundArgs, roundedWater, actualArgs, actualProtein, edited, validated, warnings,
                     servingChange >>

vars == << calculatorVars, workspaceVars >>

\* whether the protocol was edited after generation, and what validation returned
validationVars == << edited, validated, warnings >>

\* the arguments and results of the helper calls
helperVars == << roundArgs, roundedWater, actualArgs, actualProtein >>

\* no helper has been called
NoHelperCall == roundArgs = Null /\ actualArgs = Null

Init ==
    /\ P \in Targets
    /\ food \in Foods
    /\ config \in Configs
    /\ foodAStrategy = "DILUTE_INITIAL"
    /\ diThreshold = config.DEFAULT_FOOD_A_DILUTION_THRESHOLD
    /\ searched = FALSE
    /\ candidates = << >>
    /\ compared = FALSE
    /\ strictCandidates = << >>
    /\ generated = FALSE
    /\ step = Null
    /\ protocol = Null
    /\ roundArgs = Null
    /\ roundedWater = Null
    /\ actualArgs = Null
    /\ actualProtein = Null
    /\ edited = FALSE
    /\ validated = FALSE
    /\ warnings = << >>
    /\ servingChange = Null
    /\ WorkspaceConstructed

\* candidates = findDilutionCandidates(P, food, config)
FindCandidates ==
    /\ ~searched /\ protocol = Null /\ NoHelperCall
    /\ searched' = TRUE
    /\ candidates' = findDilutionCandidates(P, food, config)
    /\ UNCHANGED << P, food, config, foodAStrategy, diThreshold, compared, strictCandidates, generated, step, protocol, helperVars, validationVars, servingChange, workspaceVars >>

\* the same search again under a config that differs only in a wider PROTEIN_TOLERANCE
WidenTolerance ==
    /\ searched /\ ~compared /\ ~generated
    /\ \E tol \in Tolerances :
        /\ lessThanOrEqualTo(config.PROTEIN_TOLERANCE, tol)
        /\ config' = [config EXCEPT !.PROTEIN_TOLERANCE = tol]
    /\ strictCandidates' = candidates
    /\ compared' = TRUE
    /\ candidates' = findDilutionCandidates(P, food, config')
    /\ UNCHANGED << P, food, foodAStrategy, diThreshold, searched, generated, step, protocol, helperVars, validationVars, servingChange, workspaceVars >>

\* step = generateStepForTarget(P, 1, food, strategy, threshold, config), for the
\* target, food and config the candidates were searched for
GenerateStep ==
    /\ searched /\ ~compared /\ ~generated
    /\ \E strategy \in Strategies, threshold \in Thresholds :
        /\ foodAStrategy' = strategy
        /\ diThreshold' = threshold
        /\ step' = generateStepForTarget(P, 1, food, strategy, threshold, config)
    /\ generated' = TRUE
    /\ UNCHANGED << P, food, config, searched, candidates, compared, strictCandidates, protocol, helperVars, validationVars, servingChange, workspaceVars >>

\* protocol = generateDefaultProtocol(food, config), as when a food is selected
GenerateProtocol ==
    /\ ~searched /\ protocol = Null /\ NoHelperCall
    /\ protocol' = generateDefaultProtocol(food, config)
    /\ UNCHANGED << P, food, config, foodAStrategy, diThreshold,
                    searched, candidates, compared, strictCandidates, generated, step, helperVars, validationVars, servingChange, workspaceVars >>

\* roundedWater = findRoundedMixWaterAmount(P, food, mixAmount, idealWaterAmount,
\* dailyAmount, config.PROTEIN_TOLERANCE) for an edited recipe, idealWaterAmount
\* being the precise water amount of that recipe
RoundWater ==
    /\ ~searched /\ protocol = Null /\ NoHelperCall
    /\ \E mixAmount \in EditedMixAmounts, dailyAmount \in EditedDailyAmounts :
        LET idealWaterAmount == IdealWater(P, food, mixAmount, dailyAmount)
        IN  /\ ~lessThan(idealWaterAmount, Dec(0, 1))
            /\ roundArgs' = [mixAmount |-> mixAmount, idealWaterAmount |-> idealWaterAmount,
                             dailyAmount |-> dailyAmount]
            /\ roundedWater' = findRoundedMixWaterAmount(P, food, mixAmount, idealWaterAmount,
                                                         dailyAmount, config.PROTEIN_TOLERANCE)
    /\ UNCHANGED << P, food, config, foodAStrategy, diThreshold, searched, candidates, compared,
                    strictCandidates, generated, step, protocol, actualArgs, actualProtein, validationVars, servingChange, workspaceVars >>

\* actualProtein = calculateDilutionActualProtein(food, mixAmount, mixTotalVolume, dailyAmount)
CalculateActualProtein ==
    /\ ~searched /\ protocol = Null /\ NoHelperCall
    /\ \E mixAmount \in EditedMixAmounts, mixTotalVolume \in MixTotalVolumes,
          dailyAmount \in EditedDailyAmounts :
        /\ actualArgs' = [mixAmount |-> mixAmount, mixTotalVolume |-> mixTotalVolume,
                          dailyAmount |-> dailyAmount]
        /\ actualProtein' = calculateDilutionActualProtein(food, mixAmount, mixTotalVolume, dailyAmount)
    /\ UNCHANGED << P, food, config, foodAStrategy, diThreshold, searched, candidates, compared,
                    strictCandidates, generated, step, protocol, roundArgs, roundedWater, validationVars, servingChange, workspaceVars >>

\* protocol.steps[0].targetMg = ...; protocol.steps[1].targetMg = ...
EditTargets ==
    /\ protocol # Null /\ ~edited /\ ~validated /\ servingChange = Null
    /\ \E pair \in EditedTargetPairs :
        protocol' = [protocol EXCEPT !.steps[1].targetMg = pair[1], !.steps[2].targetMg = pair[2]]
    /\ edited' = TRUE
    /\ UNCHANGED << P, food, config, foodAStrategy, diThreshold, searched, candidates, compared,
                    strictCandidates, generated, step, helperVars, validated, warnings, servingChange, workspaceVars >>

\* warnings = validateProtocol(protocol)
ValidateProtocol ==
    /\ protocol # Null /\ ~validated /\ servingChange = Null
    /\ validated' = TRUE
    /\ warnings' = validateProtocol(protocol)
    /\ UNCHANGED << P, food, config, foodAStrategy, diThreshold, searched, candidates, compared,
                    strictCandidates, generated, step, protocol, helperVars, edited, servingChange, workspaceVars >>

\* the change handler of #food-a-serving-size: the typed text is parsed and
\* clamped against the current Food A, and the result is the servingSize
\* handed to updateFoodDetails and from there to setProtocol
ChangeServingSize ==
    /\ protocol # Null /\ ~edited /\ ~validated /\ servingChange = Null
    /\ \E raw \in RawServingSizes :
        servingChange' = [raw |-> raw,
                          gramsInServing |-> protocol.foodA.gramsInServing,
                          before |-> protocol.foodA.servingSize,
                          servingSize |-> clampServingSize(parseFloat(raw), protocol.foodA.gramsInServing)]
    /\ UNCHANGED << P, food, config, foodAStrategy, diThreshold, searched, candidates, compared,
                    strictCandidates, generated, step, protocol, helperVars, validationVars, workspaceVars >>

Next ==
    \/ FindCandidates \/ WidenTolerance \/ GenerateStep \/ GenerateProtocol
    \/ RoundWater \/ CalculateActualProtein
    \/ EditTargets \/ ValidateProtocol
    \/ ChangeServingSize

Spec == Init /\ [][Next]_vars

\* ------------------------------------------------------------------------
\* WorkspaceManager: the calls a session makes on one manager
\* ------------------------------------------------------------------------

\* the calculator is not called while the workspace is exercised
CalculatorIdle ==
    /\ P = TargetPool[1]
    /\ food = FoodPool[1]
    /\ config = DEFAULT_CONFIG
    /\ foodAStrategy = "DILUTE_INITIAL"
    /\ diThreshold = config.DEFAULT_FOOD_A_DILUTION_THRESHOLD
    /\ searched = FALSE
    /\ candidates = << >>
    /\ compared = FALSE
    /\ strictCandidates = << >>
    /\ generated = FALSE
    /\ step = Null
    /\ protocol = Null
    /\ roundArgs = Null
    /\ roundedWater = Null
    /\ actualArgs = Null
    /\ actualProtein = Null
    /\ edited = FALSE
    /\ validated = FALSE
    /\ warnings = << >>
    /\ servingChange = Null

WorkspaceInit == CalculatorIdle /\ WorkspaceConstructed

\* the fields of the manager after a call that left it as m
Becomes(m) ==
    /\ tabs' = m.tabs
    /\ activeTabId' = m.activeTabId
    /\ listeners' = m.listeners
    /\ tabListeners' = m.tabListeners
    /\ isLoggedIn' = m.isLoggedIn
    /\ forwarded' = m.forwarded
    /\ tabCalls' = m.tabCalls
    /\ threw' = m.threw

\* the call is recorded: its name, its argument and the tab that was active
\* when it was made; a session makes at most MaxCalls calls
Called(name, id) ==
    /\ calls < MaxCalls
    /\ calls' = calls + 1
    /\ lastCall' = [name |-> name, id |-> id, active |-> activeTabId]

\* manager.addTab(); the new id is drawn only when a tab is added
AddTab ==
    /\ nextId <= MaxIds
    /\ Becomes(addTab(Manager, nextId))
    /\ nextId' = IF Len(tabs') > Len(tabs) THEN nextId + 1 ELSE nextId
    /\ Called("addTab", nextId)
    /\ UNCHANGED calculatorVars

\* manager.closeTab(id), id of a tab or not
CloseTab ==
    /\ \E id \in TabIds :
        /\ Becomes(closeTab(Manager, id))
        /\ Called("closeTab", id)
    /\ UNCHANGED << nextId, calculatorVars >>

\* manager.setActive(id), id of a tab or not
SetActive ==
    /\ \E id \in TabIds :
        /\ Becomes(setActive(Manager, id))
        /\ Called("setActive", id)
    /\ UNCHANGED << nextId, calculatorVars >>

\* manager.setAuth(loggedIn)
SetAuth ==
    /\ \E loggedIn \in BOOLEAN :
        /\ Becomes(setAuth(Manager, loggedIn))
        /\ Called("setAuth", IF loggedIn THEN 1 ELSE 0)
    /\ UNCHANGED << nextId, calculatorVars >>

\* manager.subscribe(listener)
Subscribe ==
    /\ Len(listeners) < MaxListeners
    /\ Becomes(subscribe(Manager, Len(listeners) + 1))
    /\ Called("subscribe", Len(listeners) + 1)
    /\ UNCHANGED << nextId, calculatorVars >>

\* manager.subscribeToTabs(callback)
SubscribeToTabs ==
    /\ Len(tabListeners) < MaxTabListeners
    /\ Becomes(subscribeToTabs(Manager, Len(tabListeners) + 1))
    /\ Called("subscribeToTabs", Len(tabListeners) + 1)
    /\ UNCHANGED << nextId, calculatorVars >>

\* manager.getTabs()[i].state.setCustomNote(note), on the active or a background tab
SetCustomNote ==
    /\ \E i \in 1..Len(tabs), note \in NoteValues :
        /\ Becomes(setCustomNote(Manager, i, note))
        /\ Called("setCustomNote", tabs[i].id)
    /\ UNCHANGED << nextId, calculatorVars >>

\* manager.getTabs()[i].state.setProtocol(protocol, label)
SetProtocol ==
    /\ \E i \in 1..Len(tabs), value \in ProtocolValues :
        /\ Becomes(setProtocol(Manager, i, value))
        /\ Called("setProtocol", tabs[i].id)
    /\ UNCHANGED << nextId, calculatorVars >>

WorkspaceNext ==
    \/ AddTab \/ CloseTab \/ SetActive \/ SetAuth
    \/ Subscribe \/ SubscribeToTabs \/ SetCustomNote \/ SetProtocol

WorkspaceSpec == WorkspaceInit /\ [][WorkspaceNext]_vars

\* ------------------------------------------------------------------------
\* Properties of findDilutionCandidates
\* ------------------------------------------------------------------------

\* a water amount that is a multiple of 0.5 ml
IsAligned(water) == dividedBy(water, DILUTION_WATER_STEP_RESOLUTION).d = 1

\* relative deviation from P of the protein a candidate delivers
DeliveredError(c) ==
    LET delivered == times(dividedBy(times(c.mixFoodAmount, getMgPerUnit(food)), c.mixTotalVolume),
                           c.dailyAmount)
    IN  abs(minus(dividedBy(delivered, P), Dec(1, 1)))

Returned == { candidates[i] : i \in 1..Len(candidates) }

\* C1: every candidate findDilutionCandidates returns, snapped to 0.5 ml or
\* the unsnapped ideal, delivers protein within PROTEIN_TOLERANCE of targetMg:
\* |(mixFoodAmount x mgPerUnit / mixTotalVolume) x dailyAmount / targetMg - 1| <= tolerance
ToleranceInvariant ==
    searched => \A c \in Returned : lessThanOrEqualTo(DeliveredError(c), config.PROTEIN_TOLERANCE)

\* a search that returned both an unsnapped ideal water amount and a snapped
\* one that is off target
ToleranceWitness ==
    /\ searched
    /\ \E c \in Returned : ~IsAligned(c.mixWaterAmount)
    /\ \E c \in Returned : IsAligned(c.mixWaterAmount) /\ greaterThan(DeliveredError(c), Dec(0, 1))

MinMeasurableMix == IF food.type = "SOLID" THEN config.minMeasurableMass ELSE config.minMeasurableVolume

\* C2: every returned candidate has mixFoodAmount >= the unit-appropriate
\* minimum (minMeasurableMass for SOLID, minMeasurableVolume otherwise),
\* dailyAmount >= minMeasurableVolume and
\* minMeasurableVolume <= mixWaterAmount <= MAX_MIX_WATER
ResolutionInvariant ==
    searched => \A c \in Returned :
        /\ greaterThanOrEqualTo(c.mixFoodAmount, MinMeasurableMix)
        /\ greaterThanOrEqualTo(c.dailyAmount, config.minMeasurableVolume)
        /\ greaterThanOrEqualTo(c.mixWaterAmount, config.minMeasurableVolume)
        /\ lessThanOrEqualTo(c.mixWaterAmount, config.MAX_MIX_WATER)

\* the (mixFood, dailyAmount) pairs the search examines
Pairs ==
    { << MixCandidates(food, config)[i], config.DAILY_AMOUNT_CANDIDATES[j] >> :
        i \in 1..Len(MixCandidates(food, config)), j \in 1..Len(config.DAILY_AMOUNT_CANDIDATES) }

\* a search that returned candidates, examined a pair whose ideal water floors
\* to 0 ml, and a pair whose ideal water is above MAX_MIX_WATER
ResolutionWitness ==
    /\ searched
    /\ candidates # << >>
    /\ \E pr \in Pairs :
        /\ greaterThanOrEqualTo(IdealWater(P, food, pr[1], pr[2]), Dec(0, 1))
        /\ equals(FloorWater(IdealWater(P, food, pr[1], pr[2])), Dec(0, 1))
    /\ \E pr \in Pairs : greaterThan(IdealWater(P, food, pr[1], pr[2]), config.MAX_MIX_WATER)

\* C3: every returned candidate has servings >= minServingsForMix, where
\* servings = mixTotalVolume / dailyAmount and mixTotalVolume is the kept
\* mixWaterAmount for SOLID food, mixFoodAmount + mixWaterAmount otherwise
ServingsInvariant ==
    searched => \A c \in Returned :
        /\ greaterThanOrEqualTo(c.servings, config.minServingsForMix)
        /\ equals(c.servings, dividedBy(c.mixTotalVolume, c.dailyAmount))
        /\ equals(c.mixTotalVolume,
                  IF food.type = "SOLID" THEN c.mixWaterAmount
                  ELSE plus(c.mixFoodAmount, c.mixWaterAmount))

\* a search for a non-SOLID food that returned a candidate with snapped water
\* different from the ideal water of its pair
ServingsWitness ==
    /\ searched
    /\ food.type # "SOLID"
    /\ \E c \in Returned :
        ~equals(c.mixWaterAmount, IdealWater(P, food, c.mixFoodAmount, c.dailyAmount))

\* the ideal water of a pair, where the search goes on to test water values
Examined == { pr \in Pairs : ~lessThan(IdealWater(P, food, pr[1], pr[2]), Dec(0, 1)) }

Snaps(pr) == { FloorWater(IdealWater(P, food, pr[1], pr[2])), CeilWater(IdealWater(P, food, pr[1], pr[2])) }

\* the water value delivers protein within tolerance (nothing else is asked of it)
SatisfiesTolerance(pr, water) ==
    /\ MixTotalVolume(food, pr[1], water).n # 0
    /\ ~FailsTolerance(P, times(pr[1], getMgPerUnit(food)), MixTotalVolume(food, pr[1], water),
                       pr[2], config)

\* the water value passes candidate validation
PassesValidation(pr, water) ==
    checkCandidateValidity(food, P, times(pr[1], getMgPerUnit(food)), pr[1], pr[2], water, config) # << >>

\* the returned set holds the pair's recipe with its unaligned ideal water
UnalignedIdealReturned(pr) ==
    /\ ~IsAligned(IdealWater(P, food, pr[1], pr[2]))
    /\ \E c \in Returned :
        /\ equals(c.mixFoodAmount, pr[1])
        /\ equals(c.dailyAmount, pr[2])
        /\ equals(c.mixWaterAmount, IdealWater(P, food, pr[1], pr[2]))

\* C4 as stated: if a floor or ceil snap satisfies the protein tolerance, the
\* unaligned ideal water is not returned for that recipe
SnapFirstByToleranceAlone ==
    searched => \A pr \in Examined :
        (\E w \in Snaps(pr) : SatisfiesTolerance(pr, w)) => ~UnalignedIdealReturned(pr)

\* C4 amended: if a floor or ceil snap passes candidate validation (servings,
\* measurability, water limits and protein tolerance), the unaligned ideal
\* water is not returned for that recipe; it is returned only when no snap
\* passes validation and the ideal itself does
SnapFirstPolicy ==
    searched => \A pr \in Examined :
        /\ (\E w \in Snaps(pr) : PassesValidation(pr, w)) => ~UnalignedIdealReturned(pr)
        /\ UnalignedIdealReturned(pr) =>
              PassesValidation(pr, IdealWater(P, food, pr[1], pr[2]))

\* a search with a recipe whose snap and whose unaligned ideal water would
\* both pass validation, and another recipe for which the ideal was returned
SnapFirstWitness ==
    /\ searched
    /\ \E pr \in Examined :
        /\ ~IsAligned(IdealWater(P, food, pr[1], pr[2]))
        /\ PassesValidation(pr, IdealWater(P, food, pr[1], pr[2]))
        /\ \E w \in Snaps(pr) : PassesValidation(pr, w)
    /\ \E pr \in Examined : UnalignedIdealReturned(pr)

\* C5: widening PROTEIN_TOLERANCE, everything else the same, never lowers the
\* number of candidates findDilutionCandidates returns
MonotonicTolerance ==
    compared => Len(strictCandidates) <= Len(candidates)

\* a strict search and a looser one for the same inputs, where the looser
\* returned more candidates but not all of the strict ones
MonotonicWitness ==
    /\ compared
    /\ 0 < Len(strictCandidates)
    /\ Len(strictCandidates) < Len(candidates)
    /\ \E i \in 1..Len(strictCandidates) : strictCandidates[i] \notin Returned

\* ------------------------------------------------------------------------
\* Ranking
\* ------------------------------------------------------------------------

\* C6 as stated: for SOLID food, if any returned candidate has
\* mixFoodAmount >= targetMg / (MAX_SOLID_CONCENTRATION x mgPerUnit), the
\* first one has
RankingByMixFoodAmount ==
    (searched /\ food.type = "SOLID") =>
        ((\E c \in Returned :
              greaterThanOrEqualTo(c.mixFoodAmount, minDailyForLowConcentration(P, food, config)))
         => greaterThanOrEqualTo(candidates[1].mixFoodAmount,
                                 minDailyForLowConcentration(P, food, config)))

\* C6 amended: for SOLID food, if any returned candidate has
\* dailyAmount >= targetMg / (MAX_SOLID_CONCENTRATION x mgPerUnit), the first
\* one has
RankingProperty ==
    (searched /\ food.type = "SOLID") =>
        ((\E c \in Returned : MeetsRatio(minDailyForLowConcentration(P, food, config), c))
         => MeetsRatio(minDailyForLowConcentration(P, food, config), candidates[1]))

\* a SOLID search where the first candidate meets the low-concentration
\* constraint although a candidate with less mix food, which does not meet
\* it, was returned too
RankingWitness ==
    /\ searched
    /\ food.type = "SOLID"
    /\ candidates # << >>
    /\ MeetsRatio(minDailyForLowConcentration(P, food, config), candidates[1])
    /\ \E c \in Returned :
        /\ ~MeetsRatio(minDailyForLowConcentration(P, food, config), c)
        /\ lessThan(c.mixFoodAmount, candidates[1].mixFoodAmount)

\* the actual w/v concentration of a candidate is within MAX_SOLID_CONCENTRATION
WithinMaxConcentration(c) ==
    lessThanOrEqualTo(dividedBy(c.mixFoodAmount, c.mixWaterAmount), config.MAX_SOLID_CONCENTRATION)

\* C7: for SOLID food, when at least two candidates are returned and any of
\* them has mixFoodAmount / mixWaterAmount <= MAX_SOLID_CONCENTRATION, the
\* first one has
BestWithinMaxConcentration ==
    (searched /\ food.type = "SOLID" /\ Len(candidates) >= 2) =>
        ((\E c \in Returned : WithinMaxConcentration(c)) => WithinMaxConcentration(candidates[1]))

\* ------------------------------------------------------------------------
\* Infeasibility
\* ------------------------------------------------------------------------

\* the water values the search may test for a pair: the snaps and the ideal
WaterOptions(pr) == Snaps(pr) \cup { IdealWater(P, food, pr[1], pr[2]) }

\* no division of the search has a zero divisor: P, mgPerUnit and dailyAmount
\* are non-zero, and a zero mixTotalVolume is rejected before the tolerance
\* check divides by it
NoZeroDivisor ==
    /\ P.n # 0
    /\ getMgPerUnit(food).n # 0
    /\ \A pr \in Examined : \A w \in WaterOptions(pr) :
        /\ pr[2].n # 0
        /\ MixTotalVolume(food, pr[1], w).n = 0 =>
              \/ FailsServings(dividedBy(MixTotalVolume(food, pr[1], w), pr[2]), config)
              \/ FailsResolution(food, pr[1], pr[2], w, config)

\* C8: findDilutionCandidates raises no error (it divides by nothing that is
\* zero) and returns the empty list exactly when no (mixFoodAmount,
\* dailyAmount, water option) combination passes candidate validation
EmptyExactlyWhenInfeasible ==
    searched =>
        /\ NoZeroDivisor
        /\ (candidates = << >>) <=>
              ~ \E pr \in Examined : \E w \in WaterOptions(pr) : PassesValidation(pr, w)

\* a SOLID search under a minMeasurableMass above every mix candidate, which
\* returned the empty list
EmptyWitness ==
    /\ searched
    /\ food.type = "SOLID"
    /\ candidates = << >>
    /\ \A i \in 1..Len(config.SOLID_MIX_CANDIDATES) :
        lessThan(config.SOLID_MIX_CANDIDATES[i], config.minMeasurableMass)

\* ------------------------------------------------------------------------
\* Properties of generateStepForTarget
\* ------------------------------------------------------------------------

NeatMass == dividedBy(P, getMgPerUnit(food))

\* the strategy asks for a dilution: DILUTE_ALL, or DILUTE_INITIAL with the
\* neat mass strictly below the threshold
DilutionRequired ==
    \/ foodAStrategy = "DILUTE_ALL"
    \/ foodAStrategy = "DILUTE_INITIAL" /\ lessThan(NeatMass, diThreshold)

\* C9: a non-null step of generateStepForTarget is a DILUTE step iff the
\* strategy is DILUTE_ALL, or DILUTE_INITIAL with neatMass < diThreshold, and
\* a DIRECT step otherwise
MethodFromStrategy ==
    (generated /\ step # Null) =>
        /\ step.method = "DILUTE" <=> DilutionRequired
        /\ step.method = "DIRECT" <=> ~DilutionRequired

\* DILUTE_INITIAL with the neat mass exactly at the threshold gave a DIRECT step
MethodWitness ==
    /\ generated
    /\ foodAStrategy = "DILUTE_INITIAL"
    /\ equals(NeatMass, diThreshold)
    /\ step # Null
    /\ step.method = "DIRECT"

\* C10: generateStepForTarget returns null exactly when dilution is required
\* and findDilutionCandidates returns nothing for the same target, food and
\* config; a DILUTE step carries the dailyAmount, mixFoodAmount,
\* mixWaterAmount and servings of the first candidate and the unit "ml"
StepFromBestCandidate ==
    generated =>
        /\ step = Null <=> (DilutionRequired /\ candidates = << >>)
        /\ (step # Null /\ step.method = "DILUTE") =>
              /\ step.dailyAmount = candidates[1].dailyAmount
              /\ step.mixFoodAmount = candidates[1].mixFoodAmount
              /\ step.mixWaterAmount = candidates[1].mixWaterAmount
              /\ step.servings = candidates[1].servings
              /\ step.dailyAmountUnit = "ml"

\* a DILUTE step generated where the search returned several candidates that
\* differ from the first in every field the step copies
BestCandidateWitness ==
    /\ generated
    /\ step # Null
    /\ step.method = "DILUTE"
    /\ \E c \in Returned :
        /\ c.dailyAmount # candidates[1].dailyAmount
        /\ c.mixFoodAmount # candidates[1].mixFoodAmount
        /\ c.mixWaterAmount # candidates[1].mixWaterAmount
        /\ c.servings # candidates[1].servings

\* the neat amount at the display granularity of the DIRECT-amount tests
\* (one decimal place: 1.41176... -> 1.4)
RoundedNeatMass == toFixed(NeatMass, 1)

\* the rounded neat amount delivers protein within PROTEIN_TOLERANCE of the target
RoundedWithinTolerance ==
    lessThanOrEqualTo(findPercentDifference(times(RoundedNeatMass, getMgPerUnit(food)), P),
                      config.PROTEIN_TOLERANCE)

\* C11: direct-amount snapping: the dailyAmount of a DIRECT step of
\* generateStepForTarget is the rounded display value of the neat mass
\* whenever rounded x mgPerUnit is within PROTEIN_TOLERANCE of targetMg, and
\* the precise neat mass targetMg / mgPerUnit otherwise
DirectAmountSnapping ==
    (generated /\ step # Null /\ step.method = "DIRECT") =>
        IF RoundedWithinTolerance
        THEN equals(step.dailyAmount, RoundedNeatMass)
        ELSE equals(step.dailyAmount, NeatMass)

ProtocolGenerated == protocol # Null /\ ~edited /\ servingChange = Null

\* the targets of the STANDARD list whose neat amount is below the threshold
\* and for which the search finds no recipe
InfeasibleTargets ==
    { i \in 1..Len(DOSING_STRATEGIES.STANDARD) :
        /\ lessThan(dividedBy(DOSING_STRATEGIES.STANDARD[i], getMgPerUnit(food)),
                    config.DEFAULT_FOOD_A_DILUTION_THRESHOLD)
        /\ findDilutionCandidates(DOSING_STRATEGIES.STANDARD[i], food, config) = << >> }

\* C13: generateDefaultProtocol returns exactly one step per target of the
\* STANDARD list, in list order: steps[i] has stepIndex i (from 1, contiguous)
\* and the i-th target, so targets ascend strictly; every step has food "A";
\* no target is omitted even when its dilution is infeasible; the protocol has
\* dosingStrategy STANDARD, foodAStrategy DILUTE_INITIAL and
\* diThreshold = config.DEFAULT_FOOD_A_DILUTION_THRESHOLD
OneStepPerTarget ==
    ProtocolGenerated =>
        /\ Len(protocol.steps) = Len(DOSING_STRATEGIES.STANDARD)
        /\ \A i \in 1..Len(protocol.steps) :
              /\ protocol.steps[i].stepIndex = i
              /\ protocol.steps[i].targetMg = DOSING_STRATEGIES.STANDARD[i]
              /\ protocol.steps[i].food = "A"
              /\ i > 1 => lessThan(protocol.steps[i - 1].targetMg, protocol.steps[i].targetMg)
        /\ protocol.dosingStrategy = "STANDARD"
        /\ protocol.foodAStrategy = "DILUTE_INITIAL"
        /\ protocol.diThreshold = config.DEFAULT_FOOD_A_DILUTION_THRESHOLD

\* a protocol with diluted steps, direct steps and a target that could not be diluted
OneStepPerTargetWitness ==
    /\ ProtocolGenerated
    /\ \E i \in 1..Len(protocol.steps) : protocol.steps[i].method = "DILUTE"
    /\ protocol.steps[Len(protocol.steps)].method = "DIRECT"
    /\ lessThan(dividedBy(DOSING_STRATEGIES.STANDARD[1], getMgPerUnit(food)), protocol.diThreshold)
    /\ protocol.steps[1].method = "DIRECT"

SnappedWaters == { FloorWater(roundArgs.idealWaterAmount), CeilWater(roundArgs.idealWaterAmount) }

\* total volume of the mixture with water w, the mix amount as displayed
SnapVolume(w) ==
    IF food.type = "SOLID" THEN w
    ELSE plus(w, formatAmount(roundArgs.mixAmount, "ml"))

\* err(w): relative deviation from P of the protein delivered with water w,
\* mixAmount and dailyAmount rounded to display precision
SnapError(w) ==
    LET roundedMixAmount == formatAmount(roundArgs.mixAmount, IF food.type = "SOLID" THEN "g" ELSE "ml")
        roundedDailyAmount == formatAmount(roundArgs.dailyAmount, "ml")
        delivered == dividedBy(times(times(roundedMixAmount, getMgPerUnit(food)), roundedDailyAmount),
                               SnapVolume(w))
    IN  abs(minus(dividedBy(delivered, P), Dec(1, 1)))

\* the snaps that deliver anything at all, and those of them with the least err
DefinedSnaps == { w \in SnappedWaters : SnapVolume(w).n # 0 }
BestSnaps == { w \in DefinedSnaps : \A v \in DefinedSnaps : lessThanOrEqualTo(SnapError(w), SnapError(v)) }

\* C15: findRoundedMixWaterAmount picks whichever of the floor and ceil 0.5 ml
\* snaps of idealWaterAmount has the smaller err (computed with mixAmount and
\* dailyAmount rounded to display precision) and returns it if that err is
\* within tolerance, and returns null otherwise
RoundedWaterIsBestSnap ==
    roundArgs # Null =>
        IF \E w \in BestSnaps : lessThanOrEqualTo(SnapError(w), config.PROTEIN_TOLERANCE)
        THEN roundedWater \in BestSnaps
        ELSE roundedWater = Null

\* C16: calculateDilutionActualProtein returns null if and only if
\* mixTotalVolume = 0, and otherwise mixAmount x mgPerUnit(food) x dailyAmount
\* / mixTotalVolume; no division by zero takes place
ActualProteinOrNull ==
    actualArgs # Null =>
        /\ actualProtein = Null <=> equals(actualArgs.mixTotalVolume, Dec(0, 1))
        /\ actualProtein # Null =>
              /\ actualProtein.d # 0
              /\ equals(actualProtein,
                        dividedBy(times(times(actualArgs.mixAmount, getMgPerUnit(food)), actualArgs.dailyAmount),
                                  actualArgs.mixTotalVolume))

\* a call with an empty mixture returned null
ActualProteinNullWitness ==
    /\ actualArgs # Null
    /\ actualArgs.mixTotalVolume.n = 0
    /\ actualProtein = Null

\* ------------------------------------------------------------------------
\* Properties of validateProtocol
\* ------------------------------------------------------------------------

Validated == protocol # Null /\ validated

\* the steps RAPID_ESCALATION was emitted for
FlaggedSteps ==
    { warnings[k].stepIndex : k \in { j \in 1..Len(warnings) : warnings[j].code = "RAPID_ESCALATION" } }

\* the target of step i is strictly more than twice the previous one
MoreThanDoubles(i) ==
    protocol.steps[i].targetMg.n * protocol.steps[i - 1].targetMg.d
        > 2 * protocol.steps[i - 1].targetMg.n * protocol.steps[i].targetMg.d

\* the targets of step i and of the one before are both at most 5 mg
BothSmall(i) ==
    /\ protocol.steps[i].targetMg.n <= 5 * protocol.steps[i].targetMg.d
    /\ protocol.steps[i - 1].targetMg.n <= 5 * protocol.steps[i - 1].targetMg.d

\* the first two targets of the protocol are a and b mg
FirstTargets(a, b) ==
    protocol.steps[1].targetMg = Dec(a, 1) /\ protocol.steps[2].targetMg = Dec(b, 1)

\* C17: validateProtocol emits RAPID_ESCALATION for a step exactly when its
\* targetMg is strictly more than twice the previous step's and not both are
\* <= 5 mg: 10 -> 25 and 3 -> 7 are flagged, 1 -> 4 and 10 -> 20 are not
RapidEscalationRule ==
    Validated =>
        /\ \A i \in 1..Len(protocol.steps) :
              protocol.steps[i].stepIndex \in FlaggedSteps
                  <=> (i > 1 /\ MoreThanDoubles(i) /\ ~BothSmall(i))
        /\ (FirstTargets(10, 25) \/ FirstTargets(3, 7)) => 2 \in FlaggedSteps
        /\ (FirstTargets(1, 4) \/ FirstTargets(10, 20)) => 2 \notin FlaggedSteps

\* 3 mg -> 7 mg validated: more than double, only the first dose is small
RapidEscalationWitness ==
    /\ Validated
    /\ edited
    /\ FirstTargets(3, 7)
    /\ 2 \in FlaggedSteps

\* ------------------------------------------------------------------------
\* Properties of the WorkspaceManager
\* ------------------------------------------------------------------------

\* C18: after any sequence of addTab, closeTab, setActive and setAuth calls
\* the number of tabs is at least 1 and at most 5: addTab with 5 tabs adds
\* nothing, and closeTab on the only remaining tab never removes it
TabCountBounds ==
    /\ Len(tabs) >= 1
    /\ Len(tabs) <= 5

\* a logged-in addTab was just made with five tabs open and added nothing
TabLimitWitness ==
    /\ lastCall.name = "addTab"
    /\ isLoggedIn
    /\ Len(tabs) = 5
    /\ findIndex(tabs, lastCall.id) = 0
    /\ activeTabId = lastCall.active

\* what every workspace subscriber is called with when the state of tab i emits
ForwardOf(i) ==
    [k \in 1..Len(listeners) |->
        [listener |-> listeners[k], protocol |-> tabs[i].state.protocol, note |-> tabs[i].state.customNote]]

CloseTabFrame ==
    [][ (lastCall'.name = "closeTab" /\ Len(tabs) >= 2 /\ findIndex(tabs, lastCall'.id) # 0) =>
            LET id == lastCall'.id
                index == findIndex(tabs, id)
            IN  /\ Len(tabs') = Len(tabs) - 1
                /\ \A j \in 1..Len(tabs') :
                      /\ tabs'[j].id = tabs[IF j < index THEN j ELSE j + 1].id
                      /\ tabs'[j].state.protocol = tabs[IF j < index THEN j ELSE j + 1].state.protocol
                      /\ tabs'[j].state.customNote = tabs[IF j < index THEN j ELSE j + 1].state.customNote
                /\ id # activeTabId => activeTabId' = activeTabId
                /\ id = activeTabId =>
                      activeTabId' = tabs'[IF index - 1 > 1 THEN index - 1 ELSE 1].id ]_vars

\* the active first tab was just closed with two or more tabs left, and the
\* tab that moved to the front is active
CloseActiveFirstWitness ==
    /\ lastCall.name = "closeTab"
    /\ lastCall.id = lastCall.active
    /\ findIndex(tabs, lastCall.id) = 0
    /\ Len(tabs) >= 2
    /\ lastCall.id < tabs[1].id
    /\ activeTabId = tabs[1].id

\* C21: closeTab on the only remaining tab resets it instead of removing it:
\* afterwards there is still exactly one tab with the same id, it is still the
\* active tab, its protocol is null, its custom note is the empty string and
\* its title is "Untitled 1"
LastTabIsReset ==
    [][ (lastCall'.name = "closeTab" /\ Len(tabs) = 1 /\ tabs[1].id = lastCall'.id) =>
            /\ Len(tabs') = 1
            /\ tabs'[1].id = tabs[1].id
            /\ activeTabId' = tabs'[1].id
            /\ tabs'[1].state.protocol = Null
            /\ tabs'[1].state.customNote = ""
            /\ tabs'[1].title = "Untitled 1" ]_vars

\* closeTab was just called on the only tab, which is not the tab the manager
\* was constructed with, and the subscribers were told of the cleared state
LastTabResetWitness ==
    /\ lastCall.name = "closeTab"
    /\ Len(tabs) = 1
    /\ tabs[1].id = lastCall.id
    /\ tabs[1].id # 1
    /\ tabs[1].state.protocol = Null
    /\ tabs[1].state.customNote = ""
    /\ Len(listeners) >= 1
    /\ Len(forwarded) >= 2

\* C22: public users are limited to one tab: addTab called while the workspace
\* is not logged in and at least one tab exists leaves the tab list, the
\* active tab and all subscriptions unchanged, and calls no subscriber
PublicAddTabFrame ==
    [][ (lastCall'.name = "addTab" /\ ~isLoggedIn /\ Len(tabs) >= 1) =>
            /\ tabs' = tabs
            /\ activeTabId' = activeTabId
            /\ listeners' = listeners
            /\ tabListeners' = tabListeners
            /\ forwarded' = << >>
            /\ tabCalls' = << >> ]_vars

\* addTab was just called on a logged-out workspace that still has the tabs
\* of a logged-in session and subscribers of both kinds, and added nothing
PublicAddTabWitness ==
    /\ lastCall.name = "addTab"
    /\ ~isLoggedIn
    /\ Len(tabs) >= 2
    /\ findIndex(tabs, lastCall.id) = 0
    /\ Len(listeners) >= 1
    /\ Len(tabListeners) >= 1
    /\ forwarded = << >>
    /\ tabCalls = << >>

\* ------------------------------------------------------------------------
\* Order and composition of the candidate list
\* ------------------------------------------------------------------------

\* criterion (1): 0 for a candidate that sorts in the first group, 1 otherwise;
\* every candidate of a non-SOLID food is in the first group
RatioGroup(c) ==
    IF food.type = "SOLID" /\ lessThan(c.dailyAmount, minDailyForLowConcentration(P, food, config))
    THEN 1 ELSE 0

\* the key of a is lexicographically at most the key of b
KeyAtMost(a, b) ==
    \/ RatioGroup(a) < RatioGroup(b)
    \/ /\ RatioGroup(a) = RatioGroup(b)
       /\ \/ lessThan(a.mixFoodAmount, b.mixFoodAmount)
          \/ /\ equals(a.mixFoodAmount, b.mixFoodAmount)
             /\ \/ lessThan(a.dailyAmount, b.dailyAmount)
                \/ /\ equals(a.dailyAmount, b.dailyAmount)
                   /\ \/ lessThan(a.mixTotalVolume, b.mixTotalVolume)
                      \/ /\ equals(a.mixTotalVolume, b.mixTotalVolume)
                         /\ lessThanOrEqualTo(a.mixWaterAmount, b.mixWaterAmount)

\* C23: the list findDilutionCandidates returns is sorted by the key
\* (1) for SOLID food, dailyAmount >= targetMg / (MAX_SOLID_CONCENTRATION x
\* mgPerUnit) first, (2) mixFoodAmount, (3) dailyAmount, (4) mixTotalVolume,
\* (5) mixWaterAmount, each ascending; (1) is not applied to other foods
SortedByKey ==
    searched => \A i \in 1..Len(candidates), j \in 1..Len(candidates) :
        i < j => KeyAtMost(candidates[i], candidates[j])

\* a SOLID search whose list has a candidate of the first group directly
\* before one of the second group with less mix food, and two neighbours
\* that differ in their water alone
SortedWitness ==
    /\ searched
    /\ food.type = "SOLID"
    /\ \E i \in 1..(Len(candidates) - 1) :
        /\ RatioGroup(candidates[i]) = 0
        /\ RatioGroup(candidates[i + 1]) = 1
        /\ lessThan(candidates[i + 1].mixFoodAmount, candidates[i].mixFoodAmount)
    /\ \E i \in 1..(Len(candidates) - 1) :
        /\ equals(candidates[i].mixFoodAmount, candidates[i + 1].mixFoodAmount)
        /\ equals(candidates[i].dailyAmount, candidates[i + 1].dailyAmount)
        /\ lessThan(candidates[i].mixWaterAmount, candidates[i + 1].mixWaterAmount)

\* the positions of the returned list that hold a recipe of the pair
Contributed(pr) ==
    { i \in 1..Len(candidates) :
        candidates[i].mixFoodAmount = pr[1] /\ candidates[i].dailyAmount = pr[2] }

ContributedWaters(pr) == { candidates[i].mixWaterAmount : i \in Contributed(pr) }

\* the snaps of the pair that pass candidate validation
ValidSnaps(pr) == { w \in Snaps(pr) : PassesValidation(pr, w) }

\* C24: for each (mixFoodAmount, dailyAmount) pair with ideal water >= 0 the
\* candidates the pair contributes are exactly the floor/ceil 0.5 ml snaps
\* that pass candidate validation; the unsnapped ideal water is contributed
\* only when no snap passes and the ideal itself passes; so a pair
\* contributes at most two candidates, never a snapped and the unsnapped
\* water together, never the same candidate twice; a pair with ideal water
\* < 0 contributes none
PairContributions ==
    searched => \A pr \in Pairs :
        /\ Cardinality(Contributed(pr)) = Cardinality(ContributedWaters(pr))
        /\ Cardinality(Contributed(pr)) <= 2
        /\ ContributedWaters(pr) =
              (IF pr \notin Examined THEN { }
               ELSE IF ValidSnaps(pr) # { } THEN ValidSnaps(pr)
               ELSE IF PassesValidation(pr, IdealWater(P, food, pr[1], pr[2]))
                    THEN { IdealWater(P, food, pr[1], pr[2]) }
               ELSE { })

\* a search with a pair that contributed both snaps, a pair that contributed
\* its only snap (floor = ceil) and a pair that contributed the unsnapped ideal
PairContributionsWitness ==
    /\ searched
    /\ \E pr \in Examined : Cardinality(ValidSnaps(pr)) = 2 /\ Cardinality(Contributed(pr)) = 2
    /\ \E pr \in Examined : Cardinality(Snaps(pr)) = 1 /\ Cardinality(Contributed(pr)) = 1
    /\ \E pr \in Examined :
        /\ ValidSnaps(pr) = { }
        /\ ContributedWaters(pr) = { IdealWater(P, food, pr[1], pr[2]) }

\* ------------------------------------------------------------------------
\* Shape of the generated steps
\* ------------------------------------------------------------------------

DilutionFields == { "mixFoodAmount", "mixWaterAmount", "servings" }

\* the steps generateStepForTarget and generateDefaultProtocol have returned
GeneratedSteps ==
    (IF generated /\ step # Null THEN { step } ELSE { })
    \cup (IF ProtocolGenerated THEN { protocol.steps[i] : i \in 1..Len(protocol.steps) } ELSE { })

\* the total volume of the mixture of a DILUTE step
StepMixTotalVolume(s) ==
    IF food.type = "SOLID" THEN s.mixWaterAmount ELSE plus(s.mixFoodAmount, s.mixWaterAmount)

\* C25: every step generateStepForTarget returns or generateDefaultProtocol
\* puts into a protocol has mixFoodAmount, mixWaterAmount and servings if and
\* only if its method is DILUTE; in a DILUTE step mixFoodAmount,
\* mixWaterAmount, dailyAmount and servings are > 0 and servings =
\* mixTotalVolume / dailyAmount, mixTotalVolume being mixWaterAmount for SOLID
\* food and mixFoodAmount + mixWaterAmount otherwise
StepShape ==
    \A s \in GeneratedSteps :
        IF s.method = "DILUTE"
        THEN /\ DilutionFields \subseteq DOMAIN s
             /\ greaterThan(s.mixFoodAmount, Dec(0, 1))
             /\ greaterThan(s.mixWaterAmount, Dec(0, 1))
             /\ greaterThan(s.dailyAmount, Dec(0, 1))
             /\ greaterThan(s.servings, Dec(0, 1))
             /\ equals(s.servings, dividedBy(StepMixTotalVolume(s), s.dailyAmount))
        ELSE DilutionFields \cap DOMAIN s = { }

\* a protocol for a liquid food with diluted steps followed by direct ones
StepShapeWitness ==
    /\ ProtocolGenerated
    /\ food.type = "LIQUID"
    /\ protocol.steps[1].method = "DILUTE"
    /\ protocol.steps[2].method = "DILUTE"
    /\ protocol.steps[Len(protocol.steps)].method = "DIRECT"

\* the DIRECT steps among the generated ones
DirectSteps == { s \in GeneratedSteps : s.method = "DIRECT" }

\* C27: a DIRECT step of generateStepForTarget, or of the fallback in
\* generateDefaultProtocol, carries the measuring unit of its food's type:
\* dailyAmountUnit is "g" for SOLID and CAPSULE food and "ml" for LIQUID food
DirectUnitFromFoodType ==
    \A s \in DirectSteps :
        /\ s.dailyAmountUnit = getMeasuringUnit(food)
        /\ s.dailyAmountUnit = (IF food.type \in { "SOLID", "CAPSULE" } THEN "g" ELSE "ml")

\* ------------------------------------------------------------------------
\* Properties of the settings handlers
\* ------------------------------------------------------------------------

\* C26: the Food A serving-size change handler preserves the Food invariant:
\* for every raw input (negative, zero, above 1000, blank) and every current
\* food with gramsInServing <= servingSize, the serving size it writes is > 0
\* and not less than the food's gramsInServing
ServingSizeKeepsFoodInvariant ==
    (servingChange # Null /\ lessThanOrEqualTo(servingChange.gramsInServing, servingChange.before)) =>
        /\ greaterThan(servingChange.servingSize, Dec(0, 1))
        /\ greaterThanOrEqualTo(servingChange.servingSize, servingChange.gramsInServing)

\* ------------------------------------------------------------------------
\* Physical realizability of the candidates
\* ------------------------------------------------------------------------

\* the protein in the mix food portion of a candidate
MixProtein(c) == times(c.mixFoodAmount, getMgPerUnit(food))

\* C28: under the default configuration (minServingsForMix = 3,
\* PROTEIN_TOLERANCE = 0.05) every candidate findDilutionCandidates returns
\* is physically realizable: mixFoodAmount x mgPerUnit >= targetMg and
\* dailyAmount <= mixTotalVolume, so a DILUTE step built from it triggers
\* neither INSUFFICIENT_MIX_PROTEIN nor IMPOSSIBLE_VOLUME
CandidatesRealizable ==
    (searched /\ config = DEFAULT_CONFIG) => \A c \in Returned :
        /\ greaterThanOrEqualTo(MixProtein(c), P)
        /\ lessThanOrEqualTo(c.dailyAmount, c.mixTotalVolume)

\* a default-configuration search that returned a candidate with exactly
\* three servings and a candidate that delivers less than the target
RealizableWitness ==
    /\ searched
    /\ config = DEFAULT_CONFIG
    /\ \E c \in Returned : equals(c.servings, config.minServingsForMix)
    /\ \E c \in Returned :
        lessThan(dividedBy(times(MixProtein(c), c.dailyAmount), c.mixTotalVolume), P)

\* C29: after any sequence of addTab, closeTab, setActive (with existing or
\* unknown ids) and setAuth calls, activeTabId is the id of a tab in the tab
\* list, so getActive() returns the state of an existing tab; setActive with
\* an unknown id or with the already-active id changes nothing
ActiveTabExists ==
    /\ [](findIndex(tabs, activeTabId) # 0 /\ ~threw)
    /\ [][ (/\ lastCall'.name = "setActive"
            /\ (findIndex(tabs, lastCall'.id) = 0 \/ lastCall'.id = activeTabId)) =>
               /\ tabs' = tabs
               /\ activeTabId' = activeTabId
               /\ listeners' = listeners
               /\ tabListeners' = tabListeners
               /\ isLoggedIn' = isLoggedIn
               /\ forwarded' = << >>
               /\ tabCalls' = << >> ]_vars

\* setActive was just called with the id of a tab that had been closed, while
\* several tabs are open and the first one is not the active one
ClosedIdWitness ==
    /\ lastCall.name = "setActive"
    /\ findIndex(tabs, lastCall.id) = 0
    /\ lastCall.id < nextId
    /\ Len(tabs) >= 2
    /\ activeTabId = lastCall.active
    /\ activeTabId # tabs[1].id

\* ------------------------------------------------------------------------
\* Dilution only below the threshold
\* ------------------------------------------------------------------------

\* the neat mass targetMg / mgPerUnit of step i of the protocol
StepNeatMass(i) == dividedBy(protocol.steps[i].targetMg, getMgPerUnit(protocol.foodA))

\* C30: in a protocol of generateDefaultProtocol (mgPerUnit > 0) a step is
\* DILUTE only if its neat mass is below DEFAULT_FOOD_A_DILUTION_THRESHOLD;
\* once the neat mass of a step reaches the threshold, that step and every
\* later one is DIRECT
DiluteOnlyBelowThreshold ==
    ProtocolGenerated =>
        /\ \A i \in 1..Len(protocol.steps) :
              protocol.steps[i].method = "DILUTE" =>
                  lessThan(StepNeatMass(i), config.DEFAULT_FOOD_A_DILUTION_THRESHOLD)
        /\ \A i \in 1..Len(protocol.steps), j \in 1..Len(protocol.steps) :
              (i <= j /\ greaterThanOrEqualTo(StepNeatMass(i), config.DEFAULT_FOOD_A_DILUTION_THRESHOLD))
                  => protocol.steps[j].method = "DIRECT"

\* a protocol whose diluted steps end where the neat mass is exactly the threshold
ThresholdReachedWitness ==
    /\ ProtocolGenerated
    /\ \E i \in 1..(Len(protocol.steps) - 1) :
        /\ protocol.steps[i].method = "DILUTE"
        /\ protocol.steps[i + 1].method = "DIRECT"
        /\ equals(StepNeatMass(i + 1), config.DEFAULT_FOOD_A_DILUTION_THRESHOLD)
        /\ i + 1 < Len(protocol.steps)

====
